---- MODULE Spec2Model ----
(***************************************************************************)
(* Model of xen/arch/x86/hvm/io.c (src/unnamed/part_000): the buffered     *)
(* ioreq ring, the per-vCPU ioreq slot, the request dispatchers, the       *)
(* completion assist and the passthrough port intercept.                   *)
(*                                                                         *)
(* Spec      the buffered ring: several vCPUs run hvm_buffered_io_send     *)
(*           statement by statement under the ring lock, the device model  *)
(*           consumes records without the lock.                            *)
(* SpecIo    one vCPU's ioreq slot: the dispatchers send_pio_req,          *)
(*           send_mmio_req, send_timeoffset_req and send_invalidate_req,   *)
(*           hvm_io_assist and handle_mmio, run statement by statement on  *)
(*           a call stack, with the device model answering the slot.  Its  *)
(*           calls of hvm_buffered_io_send run statement by statement      *)
(*           under the ring lock, while the domain's other vCPU produces   *)
(*           into the ring and the device model consumes from it.          *)
(***************************************************************************)
EXTENDS Integers, Naturals, Sequences, FiniteSets, TLC

(***************************************************************************)
(* Program constants.                                                      *)
(***************************************************************************)

\* Ring capacity.  io.c uses it at lines 99-100, 107 and 113; its value is
\* set by public/hvm/ioreq.h (included at line 47), where this release
\* defines it as 80.
IOREQ_BUFFER_SLOT_NUM == 80

\* read_pointer and write_pointer are 32-bit unsigned fields of
\* buffered_iopage_t.  TLC's integers are 32-bit signed, so a pointer is
\* held as its two 16-bit halves [hi, lo], value hi * 2^16 + lo, and the
\* arithmetic below is exact arithmetic modulo 2^32 on that pair.
Half == 2^16

\* The largest address the 20-bit addr field of buf_ioreq_t holds (line 69).
BufAddrMax == 1048575

(***************************************************************************)
(* Bounds of the model.                                                    *)
(***************************************************************************)

\* Number of hvm_buffered_io_send calls started in one behaviour of Spec.
MaxCalls == 2

\* Number of records the device model consumes in one behaviour.
MaxReads == 2

\* The vCPUs of the domain that produce into the ring.
VCPUS == {"vcpu0", "vcpu1"}
NoVcpu == "none"

VARIABLES
    \* buffered_iopage_t, shared with the device model
    buf_ioreq, write_pointer, read_pointer,
    \* Spec: iorp->lock, and each vCPU's position in hvm_buffered_io_send:
    \* pc, its argument req, its return value ret; chk is the occupancy
    \* write_pointer - read_pointer the queue-full test read, wrote the
    \* pointer values whose slots the call has written so far
    lock, pc, req, ret, chk, wrote, calls,
    \* Spec: the write_pointer value the device model last read, and the
    \* number of records it has consumed
    seen_wp, reads,
    \* SpecIo: the vCPU's ioreq slot (vcpu_iodata_t.vp_ioreq) and the
    \* hvm_vcpu fields io.c reads and writes
    vp_ioreq, io_in_progress, io_completed, io_data, mmio_in_progress,
    \* SpecIo: v->defer_shutdown, and whether domain_crash() was called
    defer_shutdown, crashed,
    \* SpecIo: the vCPU's call stack, the number of operations started by
    \* callers outside io.c, and the last such operation
    stack, ops, last,
    \* SpecDpci: the domain's guest-to-machine port mappings
    \* (hd->g2m_ioport_list) and the machine ports it may access; the frame
    \* of dpci_ioport_intercept; the host port accesses and the guest-memory
    \* copies of the current invocation, in order
    g2m_ioport_list, permitted, dpci, host_log, copy_log,
    \* Spec: the slots written by hvm_buffered_io_send and the slots read by
    \* the device model, each with the pointer value it was written or read
    \* at, in the order it happened
    enq_log, recv_log

ringVars == <<buf_ioreq, write_pointer, read_pointer>>
prodVars == <<lock, pc, req, ret, chk, wrote, calls>>
conVars == <<seen_wp, reads>>
ioVars == <<vp_ioreq, io_in_progress, io_completed, io_data, mmio_in_progress,
            defer_shutdown, crashed, stack, ops, last>>
dpciVars == <<g2m_ioport_list, permitted, dpci, host_log, copy_log>>
logVars == <<enq_log, recv_log>>
vars == <<buf_ioreq, write_pointer, read_pointer,
          lock, pc, req, ret, chk, wrote, calls, seen_wp, reads,
          vp_ioreq, io_in_progress, io_completed, io_data, mmio_in_progress,
          defer_shutdown, crashed, stack, ops, last,
          g2m_ioport_list, permitted, dpci, host_log, copy_log,
          enq_log, recv_log>>

(***************************************************************************)
(* ioreq_t values handed to hvm_buffered_io_send.                          *)
(***************************************************************************)

\* p->data is 64 bits wide: held as its two 32-bit words [hi, lo].  One
\* datum whose words differ and are both nonzero, and one that fits the
\* low word.
BigData == [hi |-> 1, lo |-> 2]
SmallData == [hi |-> 0, lo |-> 7]
NoData == [hi |-> 0, lo |-> 0]

\* (uint32_t)d and (uint32_t)(d >> 32).
Lo32(d) == d.lo
Hi32(d) == d.hi

MkReq(t, d, sz, a, c, ptr, dat) ==
    [type |-> t, dir |-> d, size |-> sz, addr |-> a, count |-> c,
     data_is_ptr |-> ptr, data |-> dat]

NoReq == MkReq("NONE", "WRITE", 0, 0, 0, 0, NoData)

\* Each width 1, 2, 4, 8 at the top of the 20-bit address range, and the
\* smallest and the largest width at address 0; all write-direction,
\* count 1, not pointer-indirected.
EligibleReqs ==
    { MkReq("COPY", "WRITE", sz, BufAddrMax, 1, 0,
            IF sz = 8 THEN BigData ELSE SmallData) : sz \in {1, 2, 4, 8} }
    \cup { MkReq("COPY", "WRITE", 1, 0, 1, 0, SmallData),
           MkReq("COPY", "WRITE", 8, 0, 1, 0, BigData) }

\* One request for each reason line 69 and the switch at 74-92 reject, a
\* read-direction request, and the record send_timeoffset_req builds.
OtherReqs ==
    { MkReq("COPY", "WRITE", 4, BufAddrMax + 1, 1, 0, SmallData),
      MkReq("COPY", "WRITE", 4, 4096, 1, 1, SmallData),
      MkReq("COPY", "WRITE", 4, 4096, 2, 0, SmallData),
      MkReq("COPY", "WRITE", 3, 4096, 1, 0, SmallData),
      MkReq("COPY", "READ", 4, 4096, 1, 0, SmallData),
      MkReq("TIMEOFFSET", "WRITE", 8, 0, 1, 0, BigData) }

Requests == EligibleReqs \cup OtherReqs

(***************************************************************************)
(* hvm_buffered_io_send, statement by statement.                           *)
(***************************************************************************)

\* Line 69: the cases the ring cannot carry.
BioRejectAddrOnly(p) == p.addr > BufAddrMax
BioReject(p) ==
    (p.addr > BufAddrMax) \/ (p.data_is_ptr # 0) \/ (p.count # 1)

\* Lines 74-92: the switch on p->size; the default case returns 0.
SizeOkAny(size) == TRUE
SizeOk(size) == size \in {1, 2, 4, 8}

SizeCode(size) ==
    CASE size = 1 -> 0
      [] size = 2 -> 1
      [] size = 4 -> 2
      [] size = 8 -> 3
      [] OTHER -> 0

\* Lines 56, 87: qw is 1 only for an 8-byte access.
Qw(size) == IF size = 8 THEN 1 ELSE 0

\* Lines 72-95: the first slot's record.
BpLow(p) ==
    [type |-> p.type, dir |-> p.dir, size |-> SizeCode(p.size),
     addr |-> p.addr, data |-> Lo32(p.data)]

\* Line 112: the second slot's record, the same bp with the high half.
BpHigh(p) == [BpLow(p) EXCEPT !.data = Hi32(p.data)]

\* 32-bit unsigned pointer arithmetic on [hi, lo] pairs.
Ptr(h, l) == [hi |-> h, lo |-> l]

\* ptr + k modulo 2^32, for 0 <= k < 2^16.
PtrAdd(ptr, k) ==
    LET s == ptr.lo + k
    IN  Ptr((ptr.hi + (s \div Half)) % Half, s % Half)

\* a - b modulo 2^32.
PtrSub(a, b) ==
    LET l == a.lo - b.lo
        borrow == IF l < 0 THEN 1 ELSE 0
    IN  Ptr((a.hi - b.hi - borrow + Half) % Half, (l + Half) % Half)

\* Unsigned comparisons of a 32-bit value with a number 0 <= n < 2^16.
PtrGe(d, n) == (d.hi > 0) \/ (d.lo >= n)
PtrGt(d, n) == (d.hi > 0) \/ (d.lo > n)
PtrLe(d, n) == ~PtrGt(d, n)

\* ptr % m for 0 < m < 2^16: (hi * 2^16 + lo) % m.
PtrModN(ptr, m) == (((ptr.hi % m) * (Half % m)) + ptr.lo) % m

\* Lines 99-100: the queue-full test, made under the lock.
RingFullNoQw(wp, rp, qw) == PtrGe(PtrSub(wp, rp), IOREQ_BUFFER_SLOT_NUM)
RingFullWrong(wp, rp, qw) == PtrGt(PtrSub(wp, rp), IOREQ_BUFFER_SLOT_NUM - qw)
RingFull(wp, rp, qw) == PtrGe(PtrSub(wp, rp), IOREQ_BUFFER_SLOT_NUM - qw)

\* Lines 107, 113: the slot a pointer value names.
SlotIndex(ptr) == PtrModN(ptr, IOREQ_BUFFER_SLOT_NUM)

\* Line 119: write_pointer += qw ? 2 : 1.
PtrAdvance(wp, qw) == PtrAdd(wp, IF qw = 1 THEN 2 ELSE 1)

\* Lines 107-121: the order of the statements after the queue-full test.
BioNextPcPublishEarly(at, qw) ==
    CASE at = "copy0" -> "publish"
      [] at = "publish" -> IF qw = 1 THEN "copy1" ELSE "unlock"
      [] at = "copy1" -> "unlock"
      [] OTHER -> "ret"
BioNextPc(at, qw) ==
    CASE at = "copy0" -> IF qw = 1 THEN "copy1" ELSE "publish"
      [] at = "copy1" -> "publish"
      [] at = "publish" -> "unlock"
      [] OTHER -> "ret"

\* Lines 49-95: entry.  A rejected request returns 0 before the lock is
\* touched; any other goes on to spin_lock.
BioEnter(v, p) ==
    /\ pc[v] = "idle"
    /\ req' = [req EXCEPT ![v] = p]
    /\ IF BioReject(p) \/ ~SizeOk(p.size)
       THEN /\ pc' = [pc EXCEPT ![v] = "ret"]
            /\ ret' = [ret EXCEPT ![v] = 0]
       ELSE /\ pc' = [pc EXCEPT ![v] = "spin_lock"]
            /\ ret' = ret

\* A call by a caller the model does not follow.
BioCall(v, p) ==
    /\ calls < MaxCalls
    /\ calls' = calls + 1
    /\ BioEnter(v, p)
    /\ UNCHANGED <<logVars, ringVars, lock, chk, wrote, seen_wp, reads>>

\* Line 97: spin_lock(&iorp->lock) returns once no vCPU holds the lock.
LockFreeAlways(l) == TRUE
LockFree(l) == l = NoVcpu

BioLock(v) ==
    /\ pc[v] = "spin_lock"
    /\ LockFree(lock)
    /\ lock' = v
    /\ pc' = [pc EXCEPT ![v] = "check"]
    /\ UNCHANGED <<logVars, ringVars, req, ret, chk, wrote, calls, seen_wp, reads>>

\* Lines 99-105: the queue-full test; when full, unlock and return 0.
BioCheck(v) ==
    /\ pc[v] = "check"
    /\ IF RingFull(write_pointer, read_pointer, Qw(req[v].size))
       THEN /\ lock' = NoVcpu
            /\ ret' = [ret EXCEPT ![v] = 0]
            /\ pc' = [pc EXCEPT ![v] = "ret"]
       ELSE /\ pc' = [pc EXCEPT ![v] = "copy0"]
            /\ UNCHANGED <<lock, ret>>
    /\ chk' = [chk EXCEPT ![v] = PtrSub(write_pointer, read_pointer)]
    /\ UNCHANGED <<logVars, ringVars, req, wrote, calls, seen_wp, reads>>

\* Lines 107-108: memcpy of bp into the slot at write_pointer.
BioCopy0(v) ==
    /\ pc[v] = "copy0"
    /\ buf_ioreq' = [buf_ioreq EXCEPT ![SlotIndex(write_pointer)] = BpLow(req[v])]
    /\ wrote' = [wrote EXCEPT ![v] = Append(@, write_pointer)]
    /\ enq_log' = Append(enq_log, [ptr |-> write_pointer, rec |-> BpLow(req[v])])
    /\ pc' = [pc EXCEPT ![v] = BioNextPc("copy0", Qw(req[v].size))]
    /\ UNCHANGED <<recv_log, write_pointer, read_pointer, lock, req, ret, chk, calls, seen_wp, reads>>

\* Lines 110-115: the high half, into the slot after write_pointer's.
BioCopy1(v) ==
    /\ pc[v] = "copy1"
    /\ buf_ioreq' = [buf_ioreq EXCEPT
                       ![SlotIndex(PtrAdd(write_pointer, 1))] = BpHigh(req[v])]
    /\ wrote' = [wrote EXCEPT ![v] = Append(@, PtrAdd(write_pointer, 1))]
    /\ enq_log' = Append(enq_log, [ptr |-> PtrAdd(write_pointer, 1),
                                   rec |-> BpHigh(req[v])])
    /\ pc' = [pc EXCEPT ![v] = BioNextPc("copy1", Qw(req[v].size))]
    /\ UNCHANGED <<recv_log, write_pointer, read_pointer, lock, req, ret, chk, calls, seen_wp, reads>>

\* Lines 117-119: wmb(), then the pointer is advanced.
BioPublish(v) ==
    /\ pc[v] = "publish"
    /\ write_pointer' = PtrAdvance(write_pointer, Qw(req[v].size))
    /\ pc' = [pc EXCEPT ![v] = BioNextPc("publish", Qw(req[v].size))]
    /\ UNCHANGED <<logVars, buf_ioreq, read_pointer, lock, req, ret, chk, wrote, calls, seen_wp, reads>>

\* Lines 121-123: spin_unlock and return 1.
BioUnlock(v) ==
    /\ pc[v] = "unlock"
    /\ lock' = NoVcpu
    /\ ret' = [ret EXCEPT ![v] = 1]
    /\ pc' = [pc EXCEPT ![v] = "ret"]
    /\ UNCHANGED <<logVars, ringVars, req, chk, wrote, calls, seen_wp, reads>>

\* The caller takes the return value: the call's frame is gone.
BioLeave(v) ==
    /\ pc[v] = "ret"
    /\ pc' = [pc EXCEPT ![v] = "idle"]
    /\ req' = [req EXCEPT ![v] = NoReq]
    /\ ret' = [ret EXCEPT ![v] = 0]
    /\ chk' = [chk EXCEPT ![v] = Ptr(0, 0)]
    /\ wrote' = [wrote EXCEPT ![v] = <<>>]

BioReturn(v) ==
    /\ BioLeave(v)
    /\ UNCHANGED <<logVars, ringVars, lock, calls, seen_wp, reads>>

(***************************************************************************)
(* The device model's side of the ring.  It never takes iorp->lock: it     *)
(* reads write_pointer, then consumes the records below the value it read, *)
(* one record (one slot, or two for size code 3) at a time.                *)
(***************************************************************************)

ConsumerPoll ==
    /\ seen_wp # write_pointer
    /\ seen_wp' = write_pointer
    /\ UNCHANGED <<logVars, ringVars, prodVars, reads>>

ConsumerSlots(rp) == IF buf_ioreq[SlotIndex(rp)].size = 3 THEN 2 ELSE 1

\* The slots of the record at rp, as the device model reads them.
ConsumerTakes(rp) ==
    [i \in 1 .. ConsumerSlots(rp) |->
        [ptr |-> PtrAdd(rp, i - 1),
         rec |-> buf_ioreq[SlotIndex(PtrAdd(rp, i - 1))]]]

ConsumerRead ==
    /\ read_pointer # seen_wp
    /\ reads < MaxReads
    /\ reads' = reads + 1
    /\ recv_log' = recv_log \o ConsumerTakes(read_pointer)
    /\ read_pointer' = PtrAdd(read_pointer, ConsumerSlots(read_pointer))
    /\ UNCHANGED <<enq_log, buf_ioreq, write_pointer, prodVars, seen_wp>>

(***************************************************************************)
(* Spec: the ring under concurrent producers.                              *)
(***************************************************************************)

\* The slot contents of a zeroed page; also the record of a one-byte port
\* write of 0 to port 0.
ZeroSlot == [type |-> "PIO", dir |-> "WRITE", size |-> 0, addr |-> 0, data |-> 0]

\* The states of the ring a behaviour starts from, as <<read_pointer,
\* occupancy>>: a fresh ring; a full ring; an empty ring whose pointers are
\* one step from wrapping; a full ring whose write_pointer is one step from
\* wrapping.  Every slot holds ZeroSlot.
StartRings ==
    { <<Ptr(0, 0), 0>>,
      <<Ptr(0, 0), IOREQ_BUFFER_SLOT_NUM>>,
      <<Ptr(Half - 1, Half - 1), 0>>,
      <<Ptr(Half - 1, Half - 1 - IOREQ_BUFFER_SLOT_NUM), IOREQ_BUFFER_SLOT_NUM>> }

RingInit ==
    /\ buf_ioreq = [i \in 0 .. (IOREQ_BUFFER_SLOT_NUM - 1) |-> ZeroSlot]
    /\ \E st \in StartRings :
         /\ read_pointer = st[1]
         /\ write_pointer = PtrAdd(st[1], st[2])

\* No vCPU is inside hvm_buffered_io_send and the consumer has read
\* nothing yet.
ProdInit ==
    /\ lock = NoVcpu
    /\ pc = [v \in VCPUS |-> "idle"]
    /\ req = [v \in VCPUS |-> NoReq]
    /\ ret = [v \in VCPUS |-> 0]
    /\ chk = [v \in VCPUS |-> Ptr(0, 0)]
    /\ wrote = [v \in VCPUS |-> <<>>]
    /\ calls = 0
    /\ seen_wp = read_pointer
    /\ reads = 0
    /\ enq_log = <<>>
    /\ recv_log = <<>>

\* A zeroed ioreq slot (state 0 is STATE_IOREQ_NONE, type 0 IOREQ_TYPE_PIO,
\* dir 0 IOREQ_WRITE) and a vCPU with no I/O in flight.
NoOp == [op |-> "none", arg |-> NoData, tries |-> 0, ret |-> 0]

IoInit ==
    /\ vp_ioreq = [state |-> "NONE", type |-> "PIO", dir |-> "WRITE", size |-> 0,
                   addr |-> 0, count |-> 0, df |-> 0, data_is_ptr |-> 0,
                   data |-> NoData, io_count |-> 0]
    /\ io_in_progress = 0
    /\ io_completed = 0
    /\ io_data = NoData
    /\ mmio_in_progress = 0
    /\ defer_shutdown = 0
    /\ crashed = FALSE
    /\ stack = <<>>
    /\ ops = 0
    /\ last = NoOp

\* The fields of the ioreq_t that dpci_ioport_intercept uses: p->addr is
\* the guest port.
MkPortReq(d, sz, a, c, ptr, val) ==
    [dir |-> d, size |-> sz, addr |-> a, count |-> c, data_is_ptr |-> ptr,
     data |-> val]

\* The frame of dpci_ioport_intercept and of the dpci_ioport_read or
\* dpci_ioport_write it calls: arg is *p at entry, p is *p now, entry the
\* position in the list of the mapping found (0: none), k the number of
\* loop iterations completed (i is k * p->size), ret the value returned,
\* calls whether the function has been called.
NoFrame ==
    [pc |-> "idle", arg |-> MkPortReq("WRITE", 0, 0, 0, 0, NoData),
     p |-> MkPortReq("WRITE", 0, 0, 0, 0, NoData),
     entry |-> 0, mport |-> 0, k |-> 0, ret |-> 0, calls |-> 0]

\* dpci_ioport_intercept is not running; the domain has the given port
\* mappings and port permissions.
DpciStart(list, perm) ==
    /\ g2m_ioport_list = list
    /\ permitted = perm
    /\ dpci = NoFrame
    /\ host_log = <<>>
    /\ copy_log = <<>>

\* A domain without passed-through ports.
DpciInit == DpciStart(<<>>, {})

Init == RingInit /\ ProdInit /\ IoInit /\ DpciInit

otherVars == <<ioVars, dpciVars>>

Next ==
    \/ \E v \in VCPUS, p \in Requests : BioCall(v, p) /\ UNCHANGED otherVars
    \/ \E v \in VCPUS : BioLock(v) /\ UNCHANGED otherVars
    \/ \E v \in VCPUS : BioCheck(v) /\ UNCHANGED otherVars
    \/ \E v \in VCPUS : BioCopy0(v) /\ UNCHANGED otherVars
    \/ \E v \in VCPUS : BioCopy1(v) /\ UNCHANGED otherVars
    \/ \E v \in VCPUS : BioPublish(v) /\ UNCHANGED otherVars
    \/ \E v \in VCPUS : BioUnlock(v) /\ UNCHANGED otherVars
    \/ \E v \in VCPUS : BioReturn(v) /\ UNCHANGED otherVars
    \/ ConsumerPoll /\ UNCHANGED otherVars
    \/ ConsumerRead /\ UNCHANGED otherVars

Spec == Init /\ [][Next]_vars

(***************************************************************************)
(* Bounds and inputs of SpecIo.                                            *)
(***************************************************************************)

\* Operations started by callers outside io.c in one behaviour.
MaxOps == 2

\* handle_mmio invocations on the stack below which the emulator may still
\* issue a request.
MaxNest == 2

\* Requests issued after which the emulator issues no further one through
\* handle_mmio.
MaxIoCount == MaxOps + MaxNest

\* The arguments of send_pio_req and send_mmio_req: dir, size, addr (port
\* or gpa), count, df, value_is_ptr, value.
MkShape(d, sz, a, c, ptr, val) ==
    [dir |-> d, size |-> sz, addr |-> a, count |-> c, df |-> 0,
     data_is_ptr |-> ptr, data |-> val]

\* A guest-physical buffer address, for pointer-indirected requests.
BufferGpa == [hi |-> 0, lo |-> 8192]

IoShapes ==
    { MkShape("WRITE", 4, 655360, 1, 0, SmallData),
      MkShape("WRITE", 8, 655360, 1, 0, BigData),
      MkShape("READ", 4, 655360, 1, 0, NoData),
      MkShape("WRITE", 3, 655360, 1, 0, SmallData),
      MkShape("READ", 2, 655360, 2, 1, BufferGpa),
      MkShape("WRITE", 4, BufAddrMax + 1, 1, 0, SmallData) }

\* The values a read is answered with.
RespData == { [hi |-> 0, lo |-> 51] }

\* The arguments of send_timeoffset_req.
TimeOffsets == { NoData, BigData }

\* The vCPU whose slot and call stack SpecIo follows, and the domain's
\* other vCPUs, which call hvm_buffered_io_send on their own.
IoVcpu == "vcpu0"
Peers == VCPUS \ {IoVcpu}

\* What the other vCPUs enqueue.
PeerReqs == { MkReq("COPY", "WRITE", 4, 4096, 1, 0, SmallData) }

\* The ioreq_t fields hvm_buffered_io_send reads.
AsReq(p) ==
    MkReq(p.type, p.dir, p.size, p.addr, p.count, p.data_is_ptr, p.data)

\* ~0UL, each 32-bit word held as the signed integer with the same bits.
AllOnes == [hi |-> 0 - 1, lo |-> 0 - 1]

(***************************************************************************)
(* The call stack.  A frame is a function of io.c, the place it has        *)
(* reached, its arguments and its locals.                                  *)
(***************************************************************************)

NoShape == MkShape("WRITE", 0, 0, 0, 0, NoData)

Frame(f, a) ==
    [fn |-> f, pc |-> "entry", arg |-> a,
     \* send_pio_req, send_mmio_req: what the local intercept returned
     \* ("-": not called, "handled", "declined"); what the buffered
     \* intercept returned ("-", "accepted", "declined": not a write into a
     \* buffered range, "refused": hvm_buffered_io_send returned 0); the
     \* number of records it enqueued; the number of hvm_send_assist_req
     \* calls
     local |-> "-", buffered |-> "-", enq |-> 0, sent |-> 0,
     \* hvm_io_assist: the slot state found at line 284, the number of
     \* vcpu_end_shutdown_deferral calls, whether handle_mmio was re-entered
     \* (also set in the dispatcher frame whose inline hvm_io_assist did so)
     found |-> "-", rel |-> 0, reentered |-> 0]

Top == stack[Len(stack)]
Running(f, at) == stack # <<>> /\ Top.fn = f /\ Top.pc = at
SetTop(f) == [stack EXCEPT ![Len(stack)] = f]
Pop == SubSeq(stack, 1, Len(stack) - 1)
Depth(f) == Cardinality({i \in 1 .. Len(stack) : stack[i].fn = f})

\* The guest runs on this vCPU: no handler is active, the domain has not
\* crashed, and the vCPU is not parked on a pending request.
GuestRuns == stack = <<>> /\ ~crashed /\ vp_ioreq.state = "NONE"

(***************************************************************************)
(* send_pio_req (126-157) and send_mmio_req (159-191).                     *)
(***************************************************************************)

\* The instruction emulator's port access: it marks an I/O in progress and
\* calls send_pio_req.
EmulPio(r) ==
    /\ GuestRuns
    /\ ops < MaxOps
    /\ ops' = ops + 1
    /\ last' = [op |-> "send_pio_req", arg |-> r.data, tries |-> 0, ret |-> 0]
    /\ io_in_progress' = 1
    /\ stack' = <<Frame("send_pio_req", r)>>
    /\ UNCHANGED <<ringVars, vp_ioreq, io_completed, io_data, mmio_in_progress,
                   defer_shutdown, crashed>>

\* Lines 138-146 and 172-180: the fields written into the slot.
SlotFill(p, t, a) ==
    [p EXCEPT !.dir = a.dir, !.data_is_ptr = a.data_is_ptr, !.type = t,
              !.size = a.size, !.addr = a.addr, !.count = a.count,
              !.df = a.df, !.data = a.data, !.io_count = @ + 1]

\* IOREQ_TYPE_PIO for send_pio_req (140), the type argument for
\* send_mmio_req (174), which the emulator passes as IOREQ_TYPE_COPY.
SlotType(f) == IF f = "send_pio_req" THEN "PIO" ELSE "COPY"

\* Lines 133-146 / 167-180.  A slot that is not idle is only warned about.
SendEntry ==
    /\ stack # <<>>
    /\ Top.fn \in {"send_pio_req", "send_mmio_req"}
    /\ Top.pc = "entry"
    /\ vp_ioreq' = SlotFill(vp_ioreq, SlotType(Top.fn), Top.arg)
    /\ stack' = SetTop([Top EXCEPT !.pc = "intercept"])
    /\ UNCHANGED <<ringVars, io_in_progress, io_completed, io_data,
                   mmio_in_progress, defer_shutdown, crashed, ops, last>>

\* Lines 148 and 182: where the dispatcher goes after the local intercept.
SendAfterLocalBoth(f, local) ==
    IF f = "send_mmio_req" THEN "buffered"
    ELSE IF local = "handled" THEN "inline" ELSE "handoff"
SendAfterLocal(f, local) ==
    IF local = "handled" THEN "inline"
    ELSE IF f = "send_mmio_req" THEN "buffered" ELSE "handoff"

\* Line 182: the value of hvm_mmio_intercept(p) || hvm_buffered_io_intercept(p)
\* once both have been called.
SendAfterBufferedHandsOff(local, buffered) == "handoff"
SendAfterBuffered(local, buffered) ==
    IF local = "handled" \/ buffered = "accepted" THEN "inline" ELSE "handoff"

\* hvm_portio_intercept(p) / hvm_mmio_intercept(p): a handler registered
\* for the address may take the request; a read it takes gets its value.
SendLocalIntercept ==
    /\ stack # <<>>
    /\ Top.fn \in {"send_pio_req", "send_mmio_req"}
    /\ Top.pc = "intercept"
    /\ \E local \in {"handled", "declined"}, rd \in RespData :
         /\ vp_ioreq' = IF local = "handled" /\ vp_ioreq.dir = "READ"
                           /\ vp_ioreq.data_is_ptr = 0
                        THEN [vp_ioreq EXCEPT !.data = rd]
                        ELSE vp_ioreq
         /\ stack' = SetTop([Top EXCEPT !.local = local,
                                        !.pc = SendAfterLocal(Top.fn, local)])
    /\ UNCHANGED <<ringVars, io_in_progress, io_completed, io_data,
                   mmio_in_progress, defer_shutdown, crashed, ops, last>>

\* hvm_buffered_io_intercept(p): for a write into a buffered range it
\* calls hvm_buffered_io_send(p); anything else it declines.
SendBufferedIntercept ==
    /\ Running("send_mmio_req", "buffered")
    /\ \E inrange \in BOOLEAN :
         IF inrange /\ vp_ioreq.dir = "WRITE"
         THEN /\ BioEnter(IoVcpu, AsReq(vp_ioreq))
              /\ stack' = SetTop([Top EXCEPT !.pc = "bufwait"])
         ELSE /\ stack' = SetTop([Top EXCEPT
                                    !.buffered = "declined",
                                    !.pc = SendAfterBuffered(Top.local, "declined")])
              /\ UNCHANGED <<pc, req, ret>>
    /\ UNCHANGED <<ringVars, lock, chk, wrote, calls, vp_ioreq, io_in_progress,
                   io_completed, io_data, mmio_in_progress, defer_shutdown,
                   crashed, ops, last>>

\* hvm_buffered_io_send has returned to hvm_buffered_io_intercept, which
\* returns its value to line 182.
SendBufferedReturn ==
    /\ Running("send_mmio_req", "bufwait")
    /\ BioLeave(IoVcpu)
    /\ LET res == IF ret[IoVcpu] = 1 THEN "accepted" ELSE "refused"
       IN  stack' = SetTop([Top EXCEPT
                              !.buffered = res, !.enq = @ + ret[IoVcpu],
                              !.pc = SendAfterBuffered(Top.local, res)])
    /\ UNCHANGED <<ringVars, lock, calls, vp_ioreq, io_in_progress,
                   io_completed, io_data, mmio_in_progress, defer_shutdown,
                   crashed, ops, last>>

\* Lines 150-151 / 184-185: p->state = STATE_IORESP_READY; hvm_io_assist().
SendInline ==
    /\ stack # <<>>
    /\ Top.fn \in {"send_pio_req", "send_mmio_req"}
    /\ Top.pc = "inline"
    /\ vp_ioreq' = [vp_ioreq EXCEPT !.state = "RESP_READY"]
    /\ stack' = Append(SetTop([Top EXCEPT !.pc = "ret"]),
                       Frame("hvm_io_assist", NoShape))
    /\ UNCHANGED <<ringVars, io_in_progress, io_completed, io_data,
                   mmio_in_progress, defer_shutdown, crashed, ops, last>>

\* hvm_send_assist_req(v): holds off a shutdown of the vCPU, marks the
\* slot STATE_IOREQ_READY and notifies the device model.
hvm_send_assist_req(p) == [p EXCEPT !.state = "READY"]

\* Lines 155 / 189.
SendHandoff ==
    /\ stack # <<>>
    /\ Top.fn \in {"send_pio_req", "send_mmio_req"}
    /\ Top.pc = "handoff"
    /\ vp_ioreq' = hvm_send_assist_req(vp_ioreq)
    /\ defer_shutdown' = 1
    /\ stack' = SetTop([Top EXCEPT !.sent = @ + 1, !.pc = "ret"])
    /\ UNCHANGED <<ringVars, io_in_progress, io_completed, io_data,
                   mmio_in_progress, crashed, ops, last>>

\* Lines 157 / 191.
SendReturn ==
    /\ stack # <<>>
    /\ Top.fn \in {"send_pio_req", "send_mmio_req"}
    /\ Top.pc = "ret"
    /\ stack' = Pop
    /\ UNCHANGED <<ringVars, vp_ioreq, io_in_progress, io_completed, io_data,
                   mmio_in_progress, defer_shutdown, crashed, ops, last>>

(***************************************************************************)
(* send_timeoffset_req (193-212) and send_invalidate_req (215-240).        *)
(***************************************************************************)

\* Line 197.
TimeoffsetSkippedNever(timeoff) == FALSE
TimeoffsetSkipped(timeoff) == timeoff = NoData

\* Lines 200-208: the request built on the stack; memset leaves addr, df
\* and data_is_ptr 0.
TimeoffsetReq(timeoff) ==
    [state |-> "READY", type |-> "TIMEOFFSET", dir |-> "WRITE", size |-> 8,
     addr |-> 0, count |-> 1, df |-> 0, data_is_ptr |-> 0, data |-> timeoff,
     io_count |-> 0]

\* The caller of send_timeoffset_req.  last.tries is the number of
\* hvm_buffered_io_send calls made and last.ret what the call returned:
\* tries 1 with ret 0 is the "Unsuccessful timeoffset update" report of
\* line 211.
TimeoffsetCall(timeoff) ==
    /\ stack = <<>>
    /\ ~crashed
    /\ ops < MaxOps
    /\ ops' = ops + 1
    /\ last' = [op |-> "send_timeoffset_req", arg |-> timeoff,
                tries |-> 0, ret |-> 0]
    /\ stack' = <<Frame("send_timeoffset_req",
                        MkShape("WRITE", 8, 0, 1, 0, timeoff))>>
    /\ UNCHANGED <<ringVars, vp_ioreq, io_in_progress, io_completed, io_data,
                   mmio_in_progress, defer_shutdown, crashed>>

\* Lines 197-210: return at once for offset 0, else build the request and
\* call hvm_buffered_io_send.
TimeoffsetEntry ==
    /\ Running("send_timeoffset_req", "entry")
    /\ IF TimeoffsetSkipped(Top.arg.data)
       THEN /\ stack' = Pop
            /\ UNCHANGED <<pc, req, ret, last>>
       ELSE /\ BioEnter(IoVcpu, AsReq(TimeoffsetReq(Top.arg.data)))
            /\ stack' = SetTop([Top EXCEPT !.pc = "wait"])
            /\ last' = [last EXCEPT !.tries = @ + 1]
    /\ UNCHANGED <<ringVars, lock, chk, wrote, calls, vp_ioreq, io_in_progress,
                   io_completed, io_data, mmio_in_progress, defer_shutdown,
                   crashed, ops>>

\* Lines 210-212: hvm_buffered_io_send has returned; a 0 is reported.
TimeoffsetReturn ==
    /\ Running("send_timeoffset_req", "wait")
    /\ BioLeave(IoVcpu)
    /\ last' = [last EXCEPT !.ret = ret[IoVcpu]]
    /\ stack' = Pop
    /\ UNCHANGED <<ringVars, lock, calls, vp_ioreq, io_in_progress,
                   io_completed, io_data, mmio_in_progress, defer_shutdown,
                   crashed, ops>>

\* Lines 228-239, with the shared page mapped (vio # NULL).
SendInvalidateReq ==
    /\ GuestRuns
    /\ ops < MaxOps
    /\ ops' = ops + 1
    /\ last' = [op |-> "send_invalidate_req", arg |-> AllOnes, tries |-> 0, ret |-> 0]
    /\ vp_ioreq' = hvm_send_assist_req(
                      [vp_ioreq EXCEPT !.type = "INVALIDATE", !.size = 4,
                                       !.dir = "WRITE", !.data = AllOnes,
                                       !.io_count = @ + 1])
    /\ defer_shutdown' = 1
    /\ UNCHANGED <<ringVars, io_in_progress, io_completed, io_data,
                   mmio_in_progress, crashed, stack>>

(***************************************************************************)
(* handle_mmio (242-277).                                                  *)
(***************************************************************************)

\* The guest trapped on an MMIO access.
HandleMmioCall ==
    /\ GuestRuns
    /\ ops < MaxOps
    /\ ops' = ops + 1
    /\ last' = [op |-> "handle_mmio", arg |-> NoData, tries |-> 0, ret |-> 0]
    /\ stack' = <<Frame("handle_mmio", NoShape)>>
    /\ UNCHANGED <<ringVars, vp_ioreq, io_in_progress, io_completed, io_data,
                   mmio_in_progress, defer_shutdown, crashed>>

\* Lines 248-250, hvm_emulate_one(&ctxt): the emulator takes a completed
\* read's value, and for a memory access of the instruction marks an I/O
\* in progress and calls send_mmio_req.
HandleMmioEmulate ==
    /\ Running("handle_mmio", "entry")
    /\ io_completed' = 0
    /\ \/ /\ stack' = SetTop([Top EXCEPT !.pc = "switch"])
          /\ UNCHANGED io_in_progress
       \/ /\ Depth("handle_mmio") <= MaxNest
          /\ vp_ioreq.io_count < MaxIoCount
          /\ \E r \in IoShapes :
               stack' = Append(SetTop([Top EXCEPT !.pc = "switch"]),
                               Frame("send_mmio_req", r))
          /\ io_in_progress' = 1
    /\ UNCHANGED <<ringVars, vp_ioreq, io_data, mmio_in_progress,
                   defer_shutdown, crashed, ops, last>>

\* Lines 254-276: what handle_mmio returns for the emulator's result.
HandleMmioRet(rc) == IF rc = "UNHANDLEABLE" THEN 0 ELSE 1

\* Lines 254-274: mmio_in_progress when handle_mmio returns.
MmioAfterKeeps(rc, mip, iip) == mip
MmioAfter(rc, mip, iip) == IF rc = "UNHANDLEABLE" THEN mip ELSE iip

\* Lines 252-276: X86EMUL_UNHANDLEABLE returns 0; any other outcome writes
\* back, copies io_in_progress into mmio_in_progress and returns 1.
\* last.ret is the value returned.
HandleMmioSwitch ==
    /\ Running("handle_mmio", "switch")
    /\ \E rc \in {"OKAY", "UNHANDLEABLE", "EXCEPTION"} :
         /\ mmio_in_progress' = MmioAfter(rc, mmio_in_progress, io_in_progress)
         /\ last' = [last EXCEPT !.ret = HandleMmioRet(rc)]
    /\ stack' = Pop
    /\ UNCHANGED <<ringVars, vp_ioreq, io_in_progress, io_completed, io_data,
                   defer_shutdown, crashed, ops>>

(***************************************************************************)
(* hvm_io_assist (279-309).                                                *)
(***************************************************************************)

\* The caller outside io.c (the resume path).  The slot is memory the
\* device model writes, so the state hvm_io_assist finds is any state.
AssistCall ==
    /\ stack = <<>>
    /\ ~crashed
    /\ ops < MaxOps
    /\ ops' = ops + 1
    /\ last' = [op |-> "hvm_io_assist", arg |-> NoData, tries |-> 0, ret |-> 0]
    /\ stack' = <<Frame("hvm_io_assist", NoShape)>>
    /\ UNCHANGED <<ringVars, vp_ioreq, io_in_progress, io_completed, io_data,
                   mmio_in_progress, defer_shutdown, crashed>>

\* Line 298: the completions whose value is stored for the emulator.
AssistStoresAnyRead(p) == p.dir = "READ"
AssistStores(p) == (p.dir = "READ") /\ (p.data_is_ptr = 0)

\* Line 293: p->state = STATE_IOREQ_NONE.
AssistClearsNothing(p) == p
AssistClears(p) == [p EXCEPT !.state = "NONE"]

\* Line 288: where the fatal path goes.
AssistFailPcReturn == "ret"
AssistFailPcFallsThrough == "mmio"
AssistFailPc == "out"

\* Lines 284-302.
AssistEntry ==
    /\ Running("hvm_io_assist", "entry")
    /\ IF vp_ioreq.state # "RESP_READY"
       THEN /\ crashed' = TRUE
            /\ stack' = SetTop([Top EXCEPT !.found = vp_ioreq.state,
                                           !.pc = AssistFailPc])
            /\ UNCHANGED <<vp_ioreq, io_in_progress, io_completed, io_data>>
       ELSE /\ vp_ioreq' = AssistClears(vp_ioreq)
            /\ io_in_progress' = 0
            /\ IF io_in_progress # 0 /\ AssistStores(vp_ioreq)
               THEN /\ io_completed' = 1
                    /\ io_data' = vp_ioreq.data
               ELSE UNCHANGED <<io_completed, io_data>>
            /\ stack' = SetTop([Top EXCEPT
                   !.found = vp_ioreq.state,
                   !.pc = IF io_in_progress # 0 /\ AssistStores(vp_ioreq)
                             /\ mmio_in_progress # 0
                          THEN "mmio" ELSE "out"])
            /\ UNCHANGED crashed
    /\ UNCHANGED <<ringVars, mmio_in_progress, defer_shutdown, ops, last>>

\* The stack with its top frame replaced by f and, when the frame below is
\* the dispatcher that called hvm_io_assist inline, that frame marked too.
MarkReentered(f) ==
    [i \in 1 .. Len(stack) |->
        IF i = Len(stack) THEN f
        ELSE IF i = Len(stack) - 1
        THEN [stack[i] EXCEPT !.reentered = 1]
        ELSE stack[i]]

\* Line 303: (void)handle_mmio().
AssistReenter ==
    /\ Running("hvm_io_assist", "mmio")
    /\ stack' = Append(MarkReentered([Top EXCEPT !.pc = "out",
                                                 !.reentered = 1]),
                       Frame("handle_mmio", NoShape))
    /\ UNCHANGED <<ringVars, vp_ioreq, io_in_progress, io_completed, io_data,
                   mmio_in_progress, defer_shutdown, crashed, ops, last>>

\* Lines 307-308: vcpu_end_shutdown_deferral(v).
AssistOut ==
    /\ Running("hvm_io_assist", "out")
    /\ defer_shutdown' = 0
    /\ stack' = SetTop([Top EXCEPT !.rel = @ + 1, !.pc = "ret"])
    /\ UNCHANGED <<ringVars, vp_ioreq, io_in_progress, io_completed, io_data,
                   mmio_in_progress, crashed, ops, last>>

\* Line 309.
AssistReturn ==
    /\ Running("hvm_io_assist", "ret")
    /\ stack' = Pop
    /\ UNCHANGED <<ringVars, vp_ioreq, io_in_progress, io_completed, io_data,
                   mmio_in_progress, defer_shutdown, crashed, ops, last>>

(***************************************************************************)
(* The device model answers a slot that is STATE_IOREQ_READY: it writes   *)
(* the value of a read and marks the slot STATE_IORESP_READY.              *)
(***************************************************************************)

ConsumerRespond ==
    /\ vp_ioreq.state = "READY"
    /\ \E rd \in RespData :
         vp_ioreq' = [vp_ioreq EXCEPT
                        !.state = "RESP_READY",
                        !.data = IF vp_ioreq.dir = "READ" /\ vp_ioreq.data_is_ptr = 0
                                 THEN rd ELSE @]
    /\ UNCHANGED <<ringVars, io_in_progress, io_completed, io_data,
                   mmio_in_progress, defer_shutdown, crashed, stack, ops, last>>

(***************************************************************************)
(* SpecIo.                                                                 *)
(***************************************************************************)

prodAll == <<prodVars, conVars, dpciVars, logVars>>
conAll == <<conVars, dpciVars, logVars>>

\* Each of the other vCPUs calls hvm_buffered_io_send once.
PeerCall(v, p) ==
    /\ calls < Cardinality(Peers)
    /\ BioCall(v, p)

\* The ring when the vCPU is first followed: two slots are free, so that
\* whether a record fits depends on what the other vCPUs and the device
\* model do meanwhile.
IoRingInit ==
    /\ buf_ioreq = [i \in 0 .. (IOREQ_BUFFER_SLOT_NUM - 1) |-> ZeroSlot]
    /\ read_pointer = Ptr(0, 0)
    /\ write_pointer = Ptr(0, IOREQ_BUFFER_SLOT_NUM - 2)

InitIo == IoRingInit /\ ProdInit /\ IoInit /\ DpciInit

NextIo ==
    \/ \E r \in IoShapes : EmulPio(r) /\ UNCHANGED prodAll
    \/ SendEntry /\ UNCHANGED prodAll
    \/ SendLocalIntercept /\ UNCHANGED prodAll
    \/ SendBufferedIntercept /\ UNCHANGED conAll
    \/ SendBufferedReturn /\ UNCHANGED conAll
    \/ SendInline /\ UNCHANGED prodAll
    \/ SendHandoff /\ UNCHANGED prodAll
    \/ SendReturn /\ UNCHANGED prodAll
    \/ \E t \in TimeOffsets : TimeoffsetCall(t) /\ UNCHANGED prodAll
    \/ TimeoffsetEntry /\ UNCHANGED conAll
    \/ TimeoffsetReturn /\ UNCHANGED conAll
    \/ SendInvalidateReq /\ UNCHANGED prodAll
    \/ HandleMmioCall /\ UNCHANGED prodAll
    \/ HandleMmioEmulate /\ UNCHANGED prodAll
    \/ HandleMmioSwitch /\ UNCHANGED prodAll
    \/ AssistCall /\ UNCHANGED prodAll
    \/ AssistEntry /\ UNCHANGED prodAll
    \/ AssistReenter /\ UNCHANGED prodAll
    \/ AssistOut /\ UNCHANGED prodAll
    \/ AssistReturn /\ UNCHANGED prodAll
    \/ ConsumerRespond /\ UNCHANGED prodAll
    \/ \E v \in Peers, p \in PeerReqs : PeerCall(v, p) /\ UNCHANGED otherVars
    \/ \E v \in VCPUS : BioLock(v) /\ UNCHANGED otherVars
    \/ \E v \in VCPUS : BioCheck(v) /\ UNCHANGED otherVars
    \/ \E v \in VCPUS : BioCopy0(v) /\ UNCHANGED otherVars
    \/ \E v \in VCPUS : BioCopy1(v) /\ UNCHANGED otherVars
    \/ \E v \in VCPUS : BioPublish(v) /\ UNCHANGED otherVars
    \/ \E v \in VCPUS : BioUnlock(v) /\ UNCHANGED otherVars
    \/ \E v \in Peers : BioReturn(v) /\ UNCHANGED otherVars
    \/ ConsumerPoll /\ UNCHANGED otherVars
    \/ ConsumerRead /\ UNCHANGED otherVars

SpecIo == InitIo /\ [][NextIo]_vars

(***************************************************************************)
(* The slot protocol with the resume path: a vCPU parked on its request is *)
(* woken when the device model has answered, and calls hvm_io_assist.      *)
(* The handlers run to their return, the device model answers every        *)
(* request it is handed, and a woken vCPU runs.  The ring's other users    *)
(* are left out: no step of theirs reads or writes the slot, and the vCPU  *)
(* holds no request that is STATE_IOREQ_READY while it waits for the ring  *)
(* lock.                                                                   *)
(***************************************************************************)

AssistResume ==
    /\ stack = <<>>
    /\ ~crashed
    /\ vp_ioreq.state = "RESP_READY"
    /\ last' = [op |-> "hvm_io_assist", arg |-> NoData, tries |-> 0, ret |-> 0]
    /\ stack' = <<Frame("hvm_io_assist", NoShape)>>
    /\ UNCHANGED <<ringVars, vp_ioreq, io_in_progress, io_completed, io_data,
                   mmio_in_progress, defer_shutdown, crashed, ops>>

\* A statement of hvm_buffered_io_send after its entry, run by vCPU v.
BioStep(v) ==
    \/ BioLock(v)
    \/ BioCheck(v)
    \/ BioCopy0(v)
    \/ BioCopy1(v)
    \/ BioPublish(v)
    \/ BioUnlock(v)

\* A step of a handler that has been entered.
HandlerStep ==
    \/ SendEntry /\ UNCHANGED prodAll
    \/ SendLocalIntercept /\ UNCHANGED prodAll
    \/ SendBufferedIntercept /\ UNCHANGED conAll
    \/ BioStep(IoVcpu) /\ UNCHANGED otherVars
    \/ SendBufferedReturn /\ UNCHANGED conAll
    \/ SendInline /\ UNCHANGED prodAll
    \/ SendHandoff /\ UNCHANGED prodAll
    \/ SendReturn /\ UNCHANGED prodAll
    \/ HandleMmioEmulate /\ UNCHANGED prodAll
    \/ HandleMmioSwitch /\ UNCHANGED prodAll

\* A step of hvm_io_assist, its call on the resume path included.
AssistStep ==
    \/ AssistResume /\ UNCHANGED prodAll
    \/ AssistEntry /\ UNCHANGED prodAll
    \/ AssistReenter /\ UNCHANGED prodAll
    \/ AssistOut /\ UNCHANGED prodAll
    \/ AssistReturn /\ UNCHANGED prodAll

NextIoLive ==
    \/ \E r \in IoShapes : EmulPio(r) /\ UNCHANGED prodAll
    \/ SendInvalidateReq /\ UNCHANGED prodAll
    \/ HandleMmioCall /\ UNCHANGED prodAll
    \/ HandlerStep
    \/ AssistStep
    \/ ConsumerRespond /\ UNCHANGED prodAll

SpecIoLive ==
    /\ InitIo
    /\ [][NextIoLive]_vars
    /\ WF_vars(HandlerStep)
    /\ WF_vars(AssistStep)
    /\ WF_vars(ConsumerRespond /\ UNCHANGED prodAll)

(***************************************************************************)
(* dpci_ioport_intercept (385-426), dpci_ioport_read (311-347) and         *)
(* dpci_ioport_write (349-383).                                            *)
(***************************************************************************)

\* One struct g2m_ioport: guest ports [gport, gport + np) are the machine
\* ports from mport on.
G2m(g, n, m) == [gport |-> g, np |-> n, mport |-> m]

\* No mapping; guest 0x300-0x30F on machine 0x3F0-0x3FF; the same followed
\* by a mapping of guest 0x308-0x317 on machine 0x100-0x10F, which overlaps
\* the first.
G2mLists ==
    { <<>>,
      <<G2m(768, 16, 1008)>>,
      <<G2m(768, 16, 1008), G2m(776, 16, 256)>> }

\* The machine ports the domain may access: none; both machine ranges;
\* 0x3F0-0x3F5 only, so that a two-byte access at 0x3F5 crosses the end.
Permissions == { {}, (1008 .. 1023) \cup (256 .. 271), 1008 .. 1013 }

\* 0x2FF (below every mapping), 0x305, 0x30A (inside both mappings) and
\* 0x310 (one past the first mapping, inside the second).
GuestPorts == {767, 773, 778, 784}

\* The value of an immediate write, wider than one byte.
WriteValue == [hi |-> 0, lo |-> 4660]

DpciReqs ==
    { MkPortReq(d, sz, a, c, ptr, IF ptr = 1 THEN BufferGpa ELSE WriteValue) :
        d \in {"READ", "WRITE"}, sz \in {1, 2, 4, 8}, a \in GuestPorts,
        c \in {1, 2}, ptr \in {0, 1} }

\* What a host port returns and what the guest buffer holds.
PortValues == {90, 165}

\* Lines 393-399: the position of the first mapping with s <= gport < e,
\* 0 when the list is exhausted.
RECURSIVE G2mFind(_, _, _)
G2mFind(list, gport, i) ==
    IF i > Len(list) THEN 0
    ELSE IF (gport >= list[i].gport) /\ (gport < list[i].gport + list[i].np)
    THEN i
    ELSE G2mFind(list, gport, i + 1)

\* Line 404.  Port numbers stay below 2^16, far from the unsigned wrap.
MPort(gport, s, m) == (gport - s) + m

\* Line 406: the last port of the range whose permission is asked.
PermitLastFirstOnly(mport, size) == mport
PermitLast(mport, size) == mport + size - 1

\* ioports_access_permitted(d, s, e): every port of [s, e] is in the
\* domain's set of permitted ports.
ioports_access_permitted(perm, s, e) == \A q \in s .. e : q \in perm

\* p->data + i, for a 64-bit p->data whose low word stays below 2^31.
Add64(d, i) == [hi |-> d.hi, lo |-> d.lo + i]

\* The casts (uint8_t), (uint16_t), (uint32_t) of lines 369, 372, 375.
Trunc(d, size) == IF size = 4 THEN d.lo ELSE d.lo % (2 ^ (8 * size))

PortWidths == {1, 2, 4}

\* Lines 339-345 and 358-364: where the loop at "at" goes after a guest
\* copy: a failed copy returns from the function.
AfterCopyGoesOn(ok, at) == at
AfterCopy(ok, at) == IF ok THEN at ELSE "done"

\* The caller: the port I/O path hands the request to the intercept.
DpciCall(r) ==
    /\ dpci.pc = "idle"
    /\ dpci' = [NoFrame EXCEPT !.pc = "lookup", !.arg = r, !.p = r, !.calls = 1]
    /\ host_log' = <<>>
    /\ copy_log' = <<>>
    /\ UNCHANGED <<g2m_ioport_list, permitted>>

\* Lines 390-404.
DpciLookup ==
    /\ dpci.pc = "lookup"
    /\ LET e == G2mFind(g2m_ioport_list, dpci.p.addr, 1)
       IN  dpci' = IF e = 0
                   THEN [dpci EXCEPT !.ret = 0, !.pc = "done"]
                   ELSE [dpci EXCEPT
                           !.entry = e,
                           !.mport = MPort(dpci.p.addr,
                                           g2m_ioport_list[e].gport,
                                           g2m_ioport_list[e].mport),
                           !.pc = "permit"]
    /\ UNCHANGED <<g2m_ioport_list, permitted, host_log, copy_log>>

\* Lines 406-423.
DpciPermit ==
    /\ dpci.pc = "permit"
    /\ dpci' = IF ~ioports_access_permitted(permitted, dpci.mport,
                                            PermitLast(dpci.mport, dpci.p.size))
               THEN [dpci EXCEPT !.ret = 0, !.pc = "done"]
               ELSE [dpci EXCEPT !.pc = IF dpci.p.dir = "READ"
                                        THEN "read" ELSE "write"]
    /\ UNCHANGED <<g2m_ioport_list, permitted, host_log, copy_log>>

\* Lines 317-346: the loop test and one iteration of dpci_ioport_read;
\* its return is followed by line 425.
DpciRead ==
    /\ dpci.pc = "read"
    /\ LET p == dpci.p
           i == dpci.k * p.size
           length == p.count * p.size
       IN  IF ~(i < length) \/ p.size \notin PortWidths
           THEN /\ dpci' = [dpci EXCEPT !.ret = 1, !.pc = "done"]
                /\ UNCHANGED <<host_log, copy_log>>
           ELSE \E z \in PortValues :
                  LET p1 == [p EXCEPT !.data = [hi |-> 0, lo |-> z]]
                  IN  /\ host_log' = Append(host_log,
                             [k |-> dpci.k, op |-> "in", port |-> dpci.mport,
                              width |-> p.size, val |-> z])
                      /\ IF p.data_is_ptr # 0
                         THEN \E ok \in BOOLEAN :
                                /\ copy_log' = Append(copy_log,
                                      [k |-> dpci.k, op |-> "to_guest",
                                       gpa |-> Add64(p1.data, i), val |-> z,
                                       width |-> p.size, ok |-> ok])
                                /\ dpci' = [dpci EXCEPT
                                      !.p = p1,
                                      !.k = IF ok THEN @ + 1 ELSE @,
                                      !.ret = IF AfterCopy(ok, "read") = "done"
                                              THEN 1 ELSE @,
                                      !.pc = AfterCopy(ok, "read")]
                         ELSE /\ copy_log' = copy_log
                              /\ dpci' = [dpci EXCEPT !.p = p1, !.k = @ + 1]
    /\ UNCHANGED <<g2m_ioport_list, permitted>>

\* Lines 355-382: the loop test and one iteration of dpci_ioport_write;
\* its return is followed by line 425.
DpciWrite ==
    /\ dpci.pc = "write"
    /\ LET p == dpci.p
           i == dpci.k * p.size
           length == p.count * p.size
       IN  IF ~(i < length)
           THEN /\ dpci' = [dpci EXCEPT !.ret = 1, !.pc = "done"]
                /\ UNCHANGED <<host_log, copy_log>>
           ELSE IF p.data_is_ptr # 0
           THEN \/ /\ copy_log' = Append(copy_log,
                         [k |-> dpci.k, op |-> "from_guest",
                          gpa |-> Add64(p.data, i), val |-> 0,
                          width |-> p.size, ok |-> FALSE])
                   /\ host_log' = host_log
                   /\ dpci' = [dpci EXCEPT
                         !.ret = IF AfterCopy(FALSE, "write") = "done"
                                 THEN 1 ELSE @,
                         !.pc = AfterCopy(FALSE, "write")]
                \/ \E z \in PortValues :
                     /\ copy_log' = Append(copy_log,
                           [k |-> dpci.k, op |-> "from_guest",
                            gpa |-> Add64(p.data, i), val |-> z,
                            width |-> p.size, ok |-> TRUE])
                     /\ host_log' =
                          IF p.size \in PortWidths
                          THEN Append(host_log,
                                 [k |-> dpci.k, op |-> "out",
                                  port |-> dpci.mport, width |-> p.size,
                                  val |-> Trunc([hi |-> 0, lo |-> z], p.size)])
                          ELSE host_log
                     /\ dpci' = [dpci EXCEPT !.k = @ + 1]
           ELSE /\ copy_log' = copy_log
                /\ host_log' =
                     IF p.size \in PortWidths
                     THEN Append(host_log,
                            [k |-> dpci.k, op |-> "out", port |-> dpci.mport,
                             width |-> p.size, val |-> Trunc(p.data, p.size)])
                     ELSE host_log
                /\ dpci' = [dpci EXCEPT !.k = @ + 1]
    /\ UNCHANGED <<g2m_ioport_list, permitted>>

\* Lines 401, 410, 425: the return to the caller.
DpciReturn ==
    /\ dpci.pc = "done"
    /\ dpci' = [dpci EXCEPT !.pc = "idle"]
    /\ UNCHANGED <<g2m_ioport_list, permitted, host_log, copy_log>>

(***************************************************************************)
(* SpecDpci: one vCPU's port accesses offered to dpci_ioport_intercept, in *)
(* a domain whose mappings and permissions were set up beforehand.         *)
(***************************************************************************)

restVars == <<ringVars, prodVars, conVars, ioVars, logVars>>

InitDpci ==
    /\ RingInit
    /\ read_pointer = Ptr(0, 0)
    /\ write_pointer = Ptr(0, 0)
    /\ ProdInit
    /\ IoInit
    /\ \E list \in G2mLists, perm \in Permissions : DpciStart(list, perm)

NextDpci ==
    \/ \E r \in DpciReqs : DpciCall(r) /\ UNCHANGED restVars
    \/ DpciLookup /\ UNCHANGED restVars
    \/ DpciPermit /\ UNCHANGED restVars
    \/ DpciRead /\ UNCHANGED restVars
    \/ DpciWrite /\ UNCHANGED restVars
    \/ DpciReturn /\ UNCHANGED restVars

SpecDpci == InitDpci /\ [][NextDpci]_vars

(***************************************************************************)
(* Properties of the ring (Spec).                                          *)
(***************************************************************************)

\* Unsigned comparison of two 32-bit values.
PtrLt(a, b) == (a.hi < b.hi) \/ (a.hi = b.hi /\ a.lo < b.lo)

\* Pointer value q lies in the window [from, to) of the pointer space.
InWindow(q, from, to) == PtrLt(PtrSub(q, from), PtrSub(to, from))

\* Occupancy: write_pointer - read_pointer as the code computes it.
Used == PtrSub(write_pointer, read_pointer)

\* The number of slots a record of the given width takes.
SlotsNeeded(size) == IF size = 8 THEN 2 ELSE 1

\* C1: write_pointer - read_pointer never exceeds IOREQ_BUFFER_SLOT_NUM,
\* whatever one-slot and two-slot enqueues and consumer steps are
\* interleaved.
C1_RingNeverOverfull == PtrLe(Used, IOREQ_BUFFER_SLOT_NUM)

\* C1 witness: a two-slot enqueue has just filled the ring to capacity.
C1_Witness ==
    \E v \in VCPUS :
        /\ pc[v] = "ret" /\ ret[v] = 1 /\ req[v].size = 8
        /\ Used = Ptr(0, IOREQ_BUFFER_SLOT_NUM)

\* The requests C2 is about: width 1, 2, 4 or 8, address below 2^20,
\* count 1, not pointer-indirected.
C2_Eligible(p) ==
    /\ p.size \in {1, 2, 4, 8}
    /\ p.addr < BufAddrMax + 1
    /\ p.count = 1
    /\ p.data_is_ptr = 0

\* capacity - occupancy >= n, for the occupancy d.
C2_FreeAtLeast(d, n) == PtrLe(d, IOREQ_BUFFER_SLOT_NUM - n)

C2_Returned ==
    \A v \in VCPUS :
        (pc[v] = "ret" /\ C2_Eligible(req[v])) =>
            (ret[v] = 1 <=> C2_FreeAtLeast(chk[v], SlotsNeeded(req[v].size)))

C2_Step ==
    \A v \in VCPUS :
        /\ (pc[v] # "ret" /\ pc'[v] = "ret" /\ ret'[v] = 0) =>
               /\ pc[v] \in {"idle", "check"}
               /\ buf_ioreq' = buf_ioreq
               /\ write_pointer' = write_pointer
        /\ (pc[v] \in {"idle", "spin_lock", "check"} /\ pc'[v] # pc[v]) =>
               /\ buf_ioreq' = buf_ioreq
               /\ write_pointer' = write_pointer
        /\ (pc[v] \in {"copy0", "copy1", "publish", "unlock"} /\ pc'[v] = "ret") =>
               ret'[v] = 1

\* C2: a call with an eligible request returns 1 exactly when the free
\* slots at its queue-full test, capacity - (write_pointer - read_pointer),
\* are at least the record's slot count (2 for width 8, else 1); a call
\* that returns 0 got there before any slot write, and none of its steps
\* changed write_pointer or a ring slot.
C2_EnqueueIffRoom == []C2_Returned /\ [][C2_Step]_vars

\* C2 witness: a width-8 request was refused with exactly one slot free.
C2_Witness ==
    \E v \in VCPUS :
        /\ pc[v] = "ret" /\ ret[v] = 0 /\ req[v].size = 8
        /\ C2_Eligible(req[v])
        /\ chk[v] = Ptr(0, IOREQ_BUFFER_SLOT_NUM - 1)

\* The step of vCPU v that advances write_pointer for its request.
C3_Publishes(v) ==
    LET p == req[v]
        lowAt == SlotIndex(write_pointer)
        highAt == SlotIndex(PtrAdd(write_pointer, 1))
    IN  /\ pc'[v] # pc[v]
        /\ buf_ioreq' = buf_ioreq
        /\ IF p.size = 8
           THEN /\ write_pointer' = PtrAdd(write_pointer, 2)
                /\ buf_ioreq[lowAt] = BpLow(p)
                /\ buf_ioreq[lowAt].data = Lo32(p.data)
                /\ buf_ioreq[highAt] = BpHigh(p)
                /\ buf_ioreq[highAt].data = Hi32(p.data)
           ELSE /\ write_pointer' = PtrAdd(write_pointer, 1)
                /\ buf_ioreq[lowAt] = BpLow(p)

C3_Step == (write_pointer' # write_pointer) => \E v \in VCPUS : C3_Publishes(v)

\* A width-8 call that has written one of its two slots only.
C3_HalfWritten(v) == req[v].size = 8 /\ Len(wrote[v]) = 1

C3_NoPartial ==
    \A v \in VCPUS :
        C3_HalfWritten(v) =>
            /\ ~InWindow(wrote[v][1], read_pointer, seen_wp)
            /\ ~InWindow(wrote[v][1], read_pointer, write_pointer)

\* C3: write_pointer moves only by a call's publish step, by 2 for a
\* width-8 record and by 1 otherwise (never by 1 for width 8), and at that
\* step the record's slots are already written, low word in the first slot,
\* high word in the second; while a width-8 call has written only one of
\* its slots that slot is not below write_pointer nor below any
\* write_pointer value the consumer has read.
C3_NoPartialRecord == []C3_NoPartial /\ [][C3_Step]_vars

\* C3 witness: the consumer has read a write_pointer that covers a width-8
\* record just published, while the other vCPU waits for the lock.
C3_Witness ==
    \E v \in VCPUS, w \in VCPUS :
        /\ v # w
        /\ pc[v] = "unlock" /\ req[v].size = 8 /\ Len(wrote[v]) = 2
        /\ seen_wp = write_pointer
        /\ pc[w] = "spin_lock"

(***************************************************************************)
(* Properties of the ioreq slot (SpecIo).                                  *)
(***************************************************************************)

Sends == {"send_pio_req", "send_mmio_req"}

\* hvm_io_assist called from outside io.c (not the inline call of lines
\* 151 / 185) that found the slot STATE_IORESP_READY: the completion of a
\* request that was handed to the device model.
TopAssist(at) ==
    /\ Len(stack) = 1
    /\ Running("hvm_io_assist", at)
    /\ Top.found = "RESP_READY"

SlotIdle == vp_ioreq.state = "NONE" /\ io_in_progress = 0

\* C4 as stated: after hvm_io_assist has run on the response to a
\* handed-off request, the slot is Idle and io_in_progress is 0.
C4_AfterAssistIdle == TopAssist("ret") => SlotIdle

\* C4: hvm_io_assist leaves the slot Idle and io_in_progress 0 at the point
\* where it has finished its own work on the response (before line 303
\* re-enters handle_mmio), and still does when it returns provided it did
\* not re-enter handle_mmio; a re-entered emulation may issue the next
\* request before hvm_io_assist returns.
C4_AssistIdleUnlessReentered ==
    /\ TopAssist("mmio") => SlotIdle
    /\ (TopAssist("out") /\ Top.reentered = 0) => SlotIdle
    /\ (TopAssist("ret") /\ Top.reentered = 0) => SlotIdle

\* A read that was handed off has been completed: hvm_io_assist is about to
\* return, the slot is Idle again and the I/O is no longer in progress.
C4_Witness ==
    /\ TopAssist("ret")
    /\ Top.reentered = 0
    /\ last.op = "hvm_io_assist"
    /\ io_completed = 1
    /\ vp_ioreq.io_count > 0
    /\ SlotIdle

\* The step of lines 284-302 on a response, with an I/O in progress.
C5_Completes ==
    /\ Running("hvm_io_assist", "entry")
    /\ vp_ioreq.state = "RESP_READY"
    /\ io_in_progress # 0
    /\ stack' # stack

C5_Step ==
    C5_Completes =>
        IF vp_ioreq.dir = "READ" /\ vp_ioreq.data_is_ptr = 0
        THEN io_data' = vp_ioreq.data /\ io_completed' = 1
        ELSE io_data' = io_data /\ io_completed' = io_completed

\* C5: when hvm_io_assist completes a request with an I/O in progress, a
\* read that is not pointer-indirected stores the slot's data in io_data
\* and sets io_completed to 1; a write or a pointer-indirected request
\* leaves io_data and io_completed as they were.
C5_ReadStoresData == [][C5_Step]_vars

\* A read answered by the device model has been completed, and its value
\* is in io_data.
C5_Witness ==
    /\ TopAssist("out")
    /\ vp_ioreq.dir = "READ"
    /\ vp_ioreq.data_is_ptr = 0
    /\ io_completed = 1
    /\ io_data \in RespData
    /\ io_data = vp_ioreq.data

\* C6: every invocation of hvm_io_assist calls vcpu_end_shutdown_deferral
\* exactly once before it returns: none before the label out, one when it
\* is about to return, on the fatal path, on the normal path and on the
\* path that re-enters handle_mmio.
C6_ReleasedExactlyOnce ==
    \A i \in 1 .. Len(stack) :
        stack[i].fn = "hvm_io_assist" =>
            /\ stack[i].pc = "ret" => stack[i].rel = 1
            /\ stack[i].pc # "ret" => stack[i].rel = 0
            /\ (i = Len(stack) /\ stack[i].pc = "ret") => defer_shutdown = 0

\* The fatal path is about to return: the slot was not STATE_IORESP_READY,
\* the domain is crashed and the deferral was released.
C6_Witness ==
    /\ Running("hvm_io_assist", "ret")
    /\ Top.found # "RESP_READY"
    /\ crashed
    /\ Top.rel = 1

\* send_timeoffset_req is running, and the step is one of its own or of
\* the hvm_buffered_io_send it called.
C8_Running == stack # <<>> /\ Top.fn = "send_timeoffset_req"
C8_OwnStep == C8_Running /\ (stack' # stack \/ pc'[IoVcpu] # pc[IoVcpu])

\* The two slots of the record for the offset t.
C8_Low(t) ==
    [type |-> "TIMEOFFSET", dir |-> "WRITE", size |-> 3, addr |-> 0,
     data |-> Lo32(t)]
C8_High(t) == [C8_Low(t) EXCEPT !.data = Hi32(t)]

C8_Step ==
    /\ C8_OwnStep =>
         /\ vp_ioreq' = vp_ioreq
         /\ defer_shutdown' = defer_shutdown
         /\ read_pointer' = read_pointer
         /\ last'.tries <= 1
         \* a slot it writes is the next free one or the one after, and
         \* gets a half of the offset
         /\ buf_ioreq' # buf_ioreq =>
               \/ buf_ioreq' = [buf_ioreq EXCEPT ![SlotIndex(write_pointer)]
                                                   = C8_Low(last.arg)]
               \/ buf_ioreq' = [buf_ioreq EXCEPT
                                  ![SlotIndex(PtrAdd(write_pointer, 1))]
                                      = C8_High(last.arg)]
         \* write_pointer moves once both halves are in place
         /\ write_pointer' # write_pointer =>
               /\ write_pointer' = PtrAdd(write_pointer, 2)
               /\ buf_ioreq[SlotIndex(write_pointer)] = C8_Low(last.arg)
               /\ buf_ioreq[SlotIndex(PtrAdd(write_pointer, 1))]
                     = C8_High(last.arg)
    \* at its return
    /\ (C8_Running /\ stack' = <<>>) =>
         IF last'.arg = NoData
         THEN last'.tries = 0 /\ pc[IoVcpu] = "idle"
         ELSE /\ last'.tries = 1
              /\ last'.ret = 1 => Len(wrote[IoVcpu]) = 2
              /\ last'.ret = 0 => wrote[IoVcpu] = <<>>

\* C8: send_timeoffset_req with offset 0 does nothing; with a nonzero
\* offset it makes exactly one attempt to enqueue a buffered record of
\* type TIMEOFFSET carrying the offset, which either lands in the ring or
\* is reported lost with no slot written by the call; it never touches the
\* vCPU's ioreq slot.
C8_TimeoffsetOneAttempt == [][C8_Step]_vars

\* A nonzero offset was lost because the ring was full.
C8_Witness ==
    /\ stack = <<>>
    /\ last.op = "send_timeoffset_req"
    /\ last.arg # NoData
    /\ last.tries = 1
    /\ last.ret = 0
    /\ RingFull(write_pointer, read_pointer, 1)

\* What one dispatcher frame may have done, given what the intercepts
\* returned.
C9_FrameOrder(f) ==
    \* the local intercept handled it: nothing else was consulted
    /\ f.local = "handled" =>
           /\ f.buffered = "-"
           /\ f.enq = 0
           /\ f.sent = 0
           /\ f.pc \in {"inline", "ret"}
    \* the buffered intercept is consulted only by send_mmio_req, and only
    \* after the local intercept declined
    /\ (f.pc \in {"buffered", "bufwait"} \/ f.buffered # "-") =>
           f.fn = "send_mmio_req" /\ f.local = "declined"
    /\ f.enq > 0 => f.buffered = "accepted"
    /\ f.buffered = "accepted" =>
           f.enq = 1 /\ f.sent = 0 /\ f.pc \in {"inline", "ret"}
    \* the hand-off happens only after every intercept declined
    /\ (f.pc = "handoff" \/ f.sent > 0) =>
           /\ f.local = "declined"
           /\ f.fn = "send_mmio_req" => f.buffered \in {"declined", "refused"}
           /\ f.sent <= 1
    \* and it does happen then
    /\ f.pc = "ret" =>
           (f.sent = 1 <=> (f.local = "declined" /\ f.buffered # "accepted"))

C9_Order ==
    /\ \A i \in 1 .. Len(stack) :
         stack[i].fn \in Sends => C9_FrameOrder(stack[i])
    \* the vCPU is inside hvm_buffered_io_send only for the buffered
    \* intercept of send_mmio_req or for send_timeoffset_req
    /\ pc[IoVcpu] # "idle" =>
         /\ stack # <<>>
         /\ \/ Top.fn = "send_mmio_req" /\ Top.pc = "bufwait"
            \/ Top.fn = "send_timeoffset_req" /\ Top.pc = "wait"

\* Inside a dispatcher the vCPU runs hvm_buffered_io_send only at the
\* buffered intercept of send_mmio_req, and the slot becomes
\* STATE_IOREQ_READY only at the hand-off.
C9_Step ==
    (stack # <<>> /\ Top.fn \in Sends) =>
        /\ pc'[IoVcpu] # pc[IoVcpu] =>
               /\ Top.fn = "send_mmio_req"
               /\ Top.pc \in {"buffered", "bufwait"}
               /\ Top.local = "declined"
        /\ (vp_ioreq'.state = "READY" /\ vp_ioreq.state # "READY") =>
               Top.pc = "handoff"

\* C9: a dispatched request takes exactly one of three paths, tried in this
\* order: the local intercept (completed inline), for send_mmio_req the
\* buffered intercept (completed inline), the hand-off to the device
\* model.  Nothing is enqueued when the local intercept handles it, and it
\* is handed off only when every intercept declined.
C9_DispatchPriority == []C9_Order /\ [][C9_Step]_vars

\* send_mmio_req is about to return after the local intercept declined and
\* the buffered intercept took the write: one record enqueued, no hand-off.
C9_Witness ==
    /\ Running("send_mmio_req", "ret")
    /\ Top.local = "declined"
    /\ Top.buffered = "accepted"
    /\ Top.enq = 1
    /\ Top.sent = 0
    /\ vp_ioreq.state = "NONE"

ValidWidths == {1, 2, 4, 8}

\* The dispatcher frames whose request has a width outside 1, 2, 4, 8.
C10_BadWidth(f) == f.fn \in Sends /\ f.arg.size \notin ValidWidths

\* C10 as stated: the dispatcher drops a request of invalid width: it is
\* not written into the slot, not offered to an intercept, not enqueued and
\* not handed to the device model.
C10_DroppedByDispatcher ==
    \A i \in 1 .. Len(stack) :
        C10_BadWidth(stack[i]) =>
            /\ stack[i].pc \in {"entry", "ret"}
            /\ stack[i].local = "-"
            /\ stack[i].buffered = "-"
            /\ stack[i].enq = 0
            /\ stack[i].sent = 0

C10_NeverEnqueued ==
    \A i \in 1 .. Len(stack) :
        C10_BadWidth(stack[i]) =>
            /\ stack[i].enq = 0
            /\ stack[i].buffered # "accepted"
            \* the dispatcher did not drop it: it is in the slot while the
            \* dispatcher works on it
            /\ (i = Len(stack)
                  /\ stack[i].pc \in {"intercept", "buffered", "bufwait",
                                       "inline", "handoff"})
                 => vp_ioreq.size = stack[i].arg.size
            \* and it went to the local intercept and, declined, to the
            \* device model
            /\ stack[i].pc = "ret" =>
                 /\ stack[i].local # "-"
                 /\ stack[i].local = "declined" => stack[i].sent = 1

\* hvm_buffered_io_send called with it returns 0 before spin_lock: the
\* call takes no lock and writes no slot.
C10_Refused ==
    (stack # <<>> /\ C10_BadWidth(Top)) =>
        /\ pc[IoVcpu] \in {"idle", "ret"}
        /\ lock # IoVcpu
        /\ wrote[IoVcpu] = <<>>
        /\ ret[IoVcpu] = 0

\* C10: a request whose width is not 1, 2, 4 or 8 is never enqueued in the
\* buffered ring (hvm_buffered_io_send refuses it without touching the
\* ring); send_pio_req and send_mmio_req do not check the width: they write
\* the request into the slot, offer it to the local intercept and, when
\* that declines, hand it to the device model.
C10_InvalidWidthNeverBuffered == C10_NeverEnqueued /\ C10_Refused

\* A 3-byte write went through send_mmio_req: the buffered path refused it
\* and it was handed to the device model.
C10_Witness ==
    /\ Running("send_mmio_req", "ret")
    /\ Top.arg.size = 3
    /\ Top.buffered = "refused"
    /\ Top.enq = 0
    /\ Top.sent = 1
    /\ vp_ioreq.size = 3
    /\ vp_ioreq.state = "READY"

(***************************************************************************)
(* Properties of the passthrough intercept (SpecDpci).                     *)
(***************************************************************************)

\* The position of the first mapping that contains the guest port the
\* intercept was called with; 0 if there is none.
C7_Mapping ==
    LET S == { i \in 1 .. Len(g2m_ioport_list) :
                 /\ g2m_ioport_list[i].gport <= dpci.arg.addr
                 /\ dpci.arg.addr < g2m_ioport_list[i].gport
                                      + g2m_ioport_list[i].np }
    IN  IF S = {} THEN 0 ELSE CHOOSE i \in S : \A j \in S : i <= j

C7_HostPort ==
    (dpci.arg.addr - g2m_ioport_list[C7_Mapping].gport)
        + g2m_ioport_list[C7_Mapping].mport

\* Every port of [host_port, host_port + width - 1] is permitted.
C7_Permitted ==
    /\ C7_Mapping # 0
    /\ \A q \in C7_HostPort .. (C7_HostPort + dpci.arg.size - 1) :
         q \in permitted

\* C7: every host port access of dpci_ioport_intercept is at
\* (guest_port - range_start) + host_range_start of the mapping containing
\* the guest port, and happens only if the whole range [host_port,
\* host_port + width - 1] is permitted; on denial the intercept returns 0
\* with no host port access and no guest-memory copy.
C7_PassthroughChecked ==
    /\ \A j \in 1 .. Len(host_log) :
         /\ C7_Permitted
         /\ host_log[j].port = C7_HostPort
         /\ host_log[j].width = dpci.arg.size
    /\ copy_log # <<>> => C7_Permitted
    /\ (dpci.calls = 1 /\ dpci.pc \in {"done", "idle"}
          /\ C7_Mapping # 0 /\ ~C7_Permitted) =>
         /\ dpci.ret = 0
         /\ host_log = <<>>
         /\ copy_log = <<>>

\* With guest 0x300-0x30F mapped on machine 0x3F0-0x3FF, a one-byte read
\* of guest port 0x305 has read machine port 0x3F5 and is handled.
C7_Witness ==
    /\ dpci.pc = "done"
    /\ dpci.ret = 1
    /\ dpci.arg.dir = "READ"
    /\ dpci.arg.addr = 773
    /\ dpci.arg.size = 1
    /\ Len(host_log) = 1
    /\ host_log[1].op = "in"
    /\ host_log[1].port = 1013

(***************************************************************************)
(* Properties of the ring (Spec), continued.                               *)
(***************************************************************************)

\* The call of vCPU v was refused before it touched the ring.
C11_Refused(v) == pc[v] = "ret" /\ ret[v] = 0 /\ wrote[v] = <<>>

\* C11 as stated: every record in the ring comes from a write-direction
\* request that is not pointer-indirected and has count 1, and a
\* read-direction, pointer-indirected or multi-count request is refused.
C11_OnlyPlainWrites ==
    \A v \in VCPUS :
        /\ wrote[v] # <<>> =>
               /\ req[v].dir = "WRITE"
               /\ req[v].data_is_ptr = 0
               /\ req[v].count = 1
        /\ (pc[v] # "idle"
              /\ (req[v].dir = "READ" \/ req[v].data_is_ptr # 0
                    \/ req[v].count # 1)) => C11_Refused(v)

C11_Placed ==
    \A v \in VCPUS :
        /\ wrote[v] # <<>> =>
               /\ req[v].data_is_ptr = 0
               /\ req[v].count = 1
               /\ \A i \in 1 .. Len(wrote[v]) :
                      buf_ioreq[SlotIndex(wrote[v][i])].dir = req[v].dir
        /\ (pc[v] # "idle" /\ (req[v].data_is_ptr # 0 \/ req[v].count # 1))
               => C11_Refused(v)

\* The steps of a call for a pointer-indirected or multi-count request
\* leave the ring as it was.
C11_Step ==
    \A v \in VCPUS :
        (pc'[v] # pc[v]
           /\ (req'[v].data_is_ptr # 0 \/ req'[v].count # 1
                 \/ req[v].data_is_ptr # 0 \/ req[v].count # 1)) =>
            /\ buf_ioreq' = buf_ioreq
            /\ write_pointer' = write_pointer

\* C11: every record hvm_buffered_io_send places in the ring comes from a
\* request that is not pointer-indirected and has count 1, and carries that
\* request's direction; a pointer-indirected or multi-count request returns
\* 0 with the ring unchanged.  The function does not test the direction.
C11_NoPointerNoCount == []C11_Placed /\ [][C11_Step]_vars

\* One vCPU has written the slot of a read-direction request while the
\* other's pointer-indirected request was refused.
C11_Witness ==
    \E v \in VCPUS, w \in VCPUS :
        /\ wrote[v] # <<>>
        /\ req[v].dir = "READ"
        /\ buf_ioreq[SlotIndex(wrote[v][1])].dir = "READ"
        /\ req[w].data_is_ptr = 1
        /\ C11_Refused(w)

(***************************************************************************)
(* Properties of the ioreq slot (SpecIo), continued.                       *)
(***************************************************************************)

\* The step of lines 284-289 on a slot that is not STATE_IORESP_READY.
C12_FatalStep ==
    /\ Running("hvm_io_assist", "entry")
    /\ vp_ioreq.state # "RESP_READY"
    /\ stack' # stack

C12_Step ==
    C12_FatalStep =>
        /\ crashed'
        /\ vp_ioreq' = vp_ioreq
        /\ io_in_progress' = io_in_progress
        /\ io_completed' = io_completed
        /\ io_data' = io_data
        /\ mmio_in_progress' = mmio_in_progress

\* An invocation that found another state goes straight to the release of
\* line 308 and returns, with the domain crashed.
C12_Frames ==
    \A i \in 1 .. Len(stack) :
        (stack[i].fn = "hvm_io_assist"
           /\ stack[i].found \notin {"-", "RESP_READY"}) =>
            /\ crashed
            /\ stack[i].reentered = 0
            /\ stack[i].pc \in {"out", "ret"}
            /\ i = Len(stack)

\* C12: when hvm_io_assist finds the slot state different from
\* ResponseReady it crashes the domain, leaves the slot state,
\* io_in_progress, io_completed and io_data as they were, and does not
\* re-enter handle_mmio.
C12_FatalLeavesState == []C12_Frames /\ [][C12_Step]_vars

\* hvm_io_assist ran while the request was still Ready (the device model
\* had not answered): the domain is crashed, the slot is still Ready and
\* the I/O still in progress.
C12_Witness ==
    /\ Running("hvm_io_assist", "out")
    /\ Top.found = "READY"
    /\ crashed
    /\ vp_ioreq.state = "READY"
    /\ io_in_progress = 1

\* A dispatcher frame whose request an intercept took and which has passed
\* lines 150-151 / 184-185.
C13_Inline(f) ==
    /\ f.fn \in Sends
    /\ (f.local = "handled" \/ f.buffered = "accepted")
    /\ f.pc = "ret"

\* C13 as stated: once an intercept has handled the request the slot is
\* never Ready during the call, and it is Idle when the call returns.
C13_HandledNeverReady ==
    \A i \in 1 .. Len(stack) :
        C13_Inline(stack[i]) =>
            /\ vp_ioreq.state # "READY"
            /\ i = Len(stack) => vp_ioreq.state = "NONE"

C13_Frames ==
    \A i \in 1 .. Len(stack) :
        /\ (stack[i].fn \in Sends
              /\ (stack[i].local = "handled" \/ stack[i].buffered = "accepted"))
             => stack[i].sent = 0
        /\ C13_Inline(stack[i]) =>
             \* the inline hvm_io_assist finds ResponseReady and clears it
             /\ (i < Len(stack) /\ stack[i + 1].fn = "hvm_io_assist") =>
                    /\ stack[i + 1].found \in {"-", "RESP_READY"}
                    /\ stack[i + 1].pc = "entry" => vp_ioreq.state = "RESP_READY"
                    /\ stack[i + 1].pc = "mmio" => vp_ioreq.state = "NONE"
             /\ stack[i].reentered = 0 =>
                    /\ vp_ioreq.state # "READY"
                    /\ i = Len(stack) => vp_ioreq.state = "NONE"

\* The slot becomes ResponseReady inside a dispatcher only at lines 150 /
\* 184, and the dispatcher's next step is the inline hvm_io_assist.
C13_Step ==
    (stack # <<>> /\ Top.fn \in Sends /\ Top.pc = "inline" /\ stack' # stack) =>
        /\ vp_ioreq'.state = "RESP_READY"
        /\ Len(stack') = Len(stack) + 1
        /\ stack'[Len(stack')].fn = "hvm_io_assist"

\* C13: when a local intercept or the buffered intercept handles a request,
\* the dispatcher marks the slot ResponseReady and the hvm_io_assist it
\* calls inline sets it Idle; the dispatcher itself never calls
\* hvm_send_assist_req; and unless that hvm_io_assist re-entered
\* handle_mmio the slot is never Ready during the call and is Idle when
\* the call returns.
C13_InlineCompletes == []C13_Frames /\ [][C13_Step]_vars

\* The inline hvm_io_assist of a write the buffered intercept accepted has
\* just cleared the slot it found ResponseReady.
C13_Witness ==
    /\ Len(stack) >= 2
    /\ Running("hvm_io_assist", "out")
    /\ Top.found = "RESP_READY"
    /\ C13_Inline(stack[Len(stack) - 1])
    /\ stack[Len(stack) - 1].buffered = "accepted"
    /\ stack[Len(stack) - 1].sent = 0
    /\ vp_ioreq.state = "NONE"

(***************************************************************************)
(* Properties of the passthrough intercept (SpecDpci), continued.          *)
(***************************************************************************)

\* The host port access of iteration k, as a set (empty if there is none).
HostAccess(k) == { j \in 1 .. Len(host_log) : host_log[j].k = k }

\* C14 as stated: in a pointer-indirected passthrough read, iteration k
\* copies the value read from the host port to guest-physical address
\* base + k * w, base being the value field the request carried when the
\* intercept was entered.
C14_CopyToBase ==
    \A j \in 1 .. Len(copy_log) :
        copy_log[j].op = "to_guest" =>
            /\ copy_log[j].gpa
                 = Add64(dpci.arg.data, copy_log[j].k * dpci.arg.size)
            /\ \E h \in HostAccess(copy_log[j].k) :
                 host_log[h].val = copy_log[j].val

\* The last guest-memory copy of the invocation failed.
C15_Failed == copy_log # <<>> /\ ~copy_log[Len(copy_log)].ok

C15_Aborted ==
    /\ \A j \in 1 .. Len(copy_log) : ~copy_log[j].ok => j = Len(copy_log)
    /\ C15_Failed =>
         LET k == copy_log[Len(copy_log)].k
         IN  /\ dpci.pc \in {"done", "idle"}
             \* nothing after iteration k
             /\ \A j \in 1 .. Len(host_log) : host_log[j].k <= k
             /\ \A j \in 1 .. Len(copy_log) : copy_log[j].k <= k
             \* a write does not reach the port in iteration k
             /\ dpci.arg.dir = "WRITE" => HostAccess(k) = {}
             \* the iterations before k stand
             /\ \A m \in 0 .. (k - 1) :
                  /\ \E j \in 1 .. Len(copy_log) :
                       copy_log[j].k = m /\ copy_log[j].ok
                  /\ dpci.arg.size \in PortWidths => HostAccess(m) # {}

\* Within one invocation the accesses and copies made are only added to.
C15_Step ==
    dpci.pc # "idle" =>
        /\ Len(host_log') >= Len(host_log)
        /\ SubSeq(host_log', 1, Len(host_log)) = host_log
        /\ Len(copy_log') >= Len(copy_log)
        /\ SubSeq(copy_log', 1, Len(copy_log)) = copy_log
        /\ C15_Failed => (host_log' = host_log /\ copy_log' = copy_log)

\* C15: in a pointer-indirected passthrough access, when the guest-memory
\* copy of iteration k fails, no host port access and no guest-memory copy
\* is performed for any later iteration, the accesses and copies of the
\* iterations before k stand, and a write does not reach the host port in
\* iteration k.
C15_CopyFailureAborts == []C15_Aborted /\ [][C15_Step]_vars

\* A two-item pointer-indirected write whose second copy from guest memory
\* failed: one port write was made, for iteration 0.
C15_Witness ==
    /\ dpci.pc = "done"
    /\ dpci.arg.dir = "WRITE"
    /\ dpci.arg.count = 2
    /\ C15_Failed
    /\ copy_log[Len(copy_log)].k = 1
    /\ Len(host_log) = 1
    /\ host_log[1].k = 0
    /\ host_log[1].op = "out"

(***************************************************************************)
(* Properties of the ring (Spec): delivery, exclusion, slot reuse.         *)
(***************************************************************************)

\* The record enqueued at pointer value q: the last one written for q, or
\* the record the ring held at q when the behaviour started.
Enqueued(q) ==
    LET S == { j \in 1 .. Len(enq_log) : enq_log[j].ptr = q }
    IN  IF S = {} THEN ZeroSlot
        ELSE enq_log[CHOOSE j \in S : \A i \in S : i <= j].rec

\* The pointer values from read_pointer up to (not including) to.
Pending(to) ==
    LET n == PtrSub(to, read_pointer)
    IN  { PtrAdd(read_pointer, d) :
            d \in 0 .. ((IF n.hi = 0 THEN n.lo ELSE Half - 1) - 1) }

\* C16: the consumer receives the enqueued records in the order their
\* enqueues took the lock, each once: slots are written at consecutive
\* pointer values in lock order, read at consecutive pointer values, every
\* slot read held the record enqueued at that pointer value, and so does
\* every slot below the write_pointer the consumer has seen.
C16_InOrderDelivery ==
    /\ \A j \in 1 .. (Len(enq_log) - 1) :
         enq_log[j + 1].ptr = PtrAdd(enq_log[j].ptr, 1)
    /\ \A j \in 1 .. (Len(recv_log) - 1) :
         recv_log[j + 1].ptr = PtrAdd(recv_log[j].ptr, 1)
    /\ \A j \in 1 .. Len(recv_log) :
         recv_log[j].rec = Enqueued(recv_log[j].ptr)
    /\ \A q \in Pending(seen_wp) :
         buf_ioreq[SlotIndex(q)] = Enqueued(q)

\* The section of hvm_buffered_io_send between spin_lock and spin_unlock.
C17_Locked == {"check", "copy0", "copy1", "publish", "unlock"}

\* Slots a call has written that write_pointer does not cover yet.
C17_Unpublished(v) == IF pc[v] \in {"copy1", "publish"} THEN Len(wrote[v]) ELSE 0

C17_Exclusive ==
    /\ \A v \in VCPUS : pc[v] \in C17_Locked <=> lock = v
    /\ \A v \in VCPUS, w \in VCPUS :
         v # w =>
            /\ ~(pc[v] \in C17_Locked /\ pc[w] \in C17_Locked)
            /\ \A i \in 1 .. Len(wrote[v]), j \in 1 .. Len(wrote[w]) :
                 wrote[v][i] # wrote[w][j]
    \* write_pointer has grown by the slots of the calls that published
    /\ enq_log # <<>> =>
         LET unpublished == IF lock = NoVcpu THEN 0 ELSE C17_Unpublished(lock)
         IN  PtrAdd(PtrSub(write_pointer, enq_log[1].ptr), unpublished)
               = Ptr(0, Len(enq_log))

\* Between the queue-full test of one call and its unlock no other call
\* changes the ring, and the consumer's step touches no lock.
C17_Step ==
    /\ \A v \in VCPUS :
         (pc[v] \in C17_Locked /\ pc'[v] = pc[v]) =>
            /\ buf_ioreq' = buf_ioreq
            /\ write_pointer' = write_pointer
    /\ read_pointer' # read_pointer => lock' = lock

\* C17: the queue-full test, the slot writes and the write_pointer advance
\* of one call are never interleaved with those of another; successful
\* calls write disjoint ranges of pointer values and write_pointer grows by
\* the sum of their slot counts; the consumer advances read_pointer without
\* the lock.  (Whether different pointer values name different slots is
\* C18.)
C17_ProducersSerialised == []C17_Exclusive /\ [][C17_Step]_vars

\* One vCPU is between its queue-full test and its publication, the
\* other has enqueued before it and still holds its result, and the
\* consumer has advanced read_pointer since the first one's test.
C17_Witness ==
    \E v \in VCPUS, w \in VCPUS :
        /\ v # w
        /\ pc[v] \in {"copy1", "publish"}
        /\ chk[v] # PtrSub(write_pointer, read_pointer)
        /\ pc[w] = "ret" /\ ret[w] = 1 /\ wrote[w] # <<>>
        /\ recv_log # <<>>

\* C18: the pointer values from read_pointer up to write_pointer name
\* pairwise different slots, so no enqueue writes a slot whose record the
\* consumer has not consumed.
C18_SlotsDistinct ==
    Cardinality({ SlotIndex(q) : q \in Pending(write_pointer) })
        = Cardinality(Pending(write_pointer))


(***************************************************************************)
(* Properties of the slot protocol with the resume path (SpecIoLive).      *)
(***************************************************************************)

\* While the slot is STATE_IOREQ_READY only the device model's answer
\* changes it, the handler that handed it off only returns, and once it
\* has returned nothing runs on the vCPU.
C19_Step ==
    vp_ioreq.state = "READY" =>
        /\ vp_ioreq'.state \in {"READY", "RESP_READY"}
        /\ vp_ioreq'.state = "READY" => vp_ioreq' = vp_ioreq
        /\ vp_ioreq' # vp_ioreq => stack' = stack
        /\ Len(stack') <= Len(stack)
        /\ stack = <<>> =>
             /\ stack' = <<>>
             /\ UNCHANGED <<io_in_progress, io_completed, io_data,
                            mmio_in_progress, defer_shutdown, crashed>>

C19_Answered == (vp_ioreq.state = "READY") ~> (vp_ioreq.state = "NONE")

\* C19: a slot handed to the device model stays STATE_IOREQ_READY, the
\* vCPU blocked, until the device model answers; and when the device model
\* answers and the vCPU then runs hvm_io_assist, every slot that became
\* STATE_IOREQ_READY becomes STATE_IOREQ_NONE again.
C19_ReadyUntilAnswered == [][C19_Step]_vars /\ C19_Answered

\* The vCPU was woken on an answered request and hvm_io_assist has set the
\* slot back to STATE_IOREQ_NONE and released the shutdown deferral.
C19_Witness ==
    /\ Len(stack) = 1
    /\ Running("hvm_io_assist", "ret")
    /\ Top.found = "RESP_READY"
    /\ Top.rel = 1
    /\ vp_ioreq.state = "NONE"
    /\ vp_ioreq.io_count > 0
    /\ defer_shutdown = 0


(***************************************************************************)
(* Properties of the re-entry of handle_mmio from hvm_io_assist (SpecIo).  *)
(***************************************************************************)

\* Frame i is handle_mmio called from hvm_io_assist at line 303.
C20_Resumed(i) ==
    /\ i >= 2
    /\ i <= Len(stack)
    /\ stack[i].fn = "handle_mmio"
    /\ stack[i - 1].fn = "hvm_io_assist"

\* hvm_io_assist about to re-enter handle_mmio, the re-entered handle_mmio
\* before the emulator runs, and the request the resumed emulator issues at
\* the entry of send_mmio_req all see the slot STATE_IOREQ_NONE; the first
\* two see io_in_progress 0.
C20_IdleAtReentry ==
    /\ Running("hvm_io_assist", "mmio") =>
         vp_ioreq.state = "NONE" /\ io_in_progress = 0
    /\ (Running("handle_mmio", "entry") /\ C20_Resumed(Len(stack))) =>
         vp_ioreq.state = "NONE" /\ io_in_progress = 0
    /\ (Running("send_mmio_req", "entry") /\ C20_Resumed(Len(stack) - 1)) =>
         vp_ioreq.state = "NONE"

\* A handle_mmio that returns 1 leaves mmio_in_progress equal to
\* io_in_progress.
C20_Step ==
    (Running("handle_mmio", "switch") /\ stack' = Pop /\ last'.ret = 1) =>
        mmio_in_progress' = io_in_progress'

\* C20: when hvm_io_assist re-enters handle_mmio the slot is already
\* STATE_IOREQ_NONE and io_in_progress already 0, so the request the resumed
\* emulation issues never finds the slot in another state; and when
\* handle_mmio returns 1, mmio_in_progress equals io_in_progress.
C20_ReentryFindsIdle == []C20_IdleAtReentry /\ [][C20_Step]_vars

\* hvm_io_assist re-entered handle_mmio, the resumed emulation issued a
\* request that was handed to the device model, and handle_mmio has returned
\* 1 with both flags set.
C20_Witness ==
    /\ Running("hvm_io_assist", "out")
    /\ Top.reentered = 1
    /\ last.ret = 1
    /\ vp_ioreq.state = "READY"
    /\ vp_ioreq.type = "COPY"
    /\ mmio_in_progress = 1
    /\ io_in_progress = 1

====
